---- MODULE Spec2Model ----
(***************************************************************************)
(* Model of pytroll_collectors/segments.py: the SegmentGatherer, which     *)
(* groups "file" messages into time slots, evaluates every slot in each    *)
(* iteration of run() and publishes or discards it.                        *)
(*                                                                         *)
(* A raw filename (uid) is the tuple <<key, start_time, segment, variant>>:*)
(* the pattern that parses it, the acquisition time and segment written in *)
(* it, and a variable tag (a processing time).  The rendered identity      *)
(* (globify of the parsed fields without the variable tags) is             *)
(* <<start_time, segment>>.  Segment 0 stands for the empty segment that   *)
(* the item string ':' composes.                                           *)
(***************************************************************************)
EXTENDS Integers, Sequences, FiniteSets, TLC

\* ---- bounds of the model ----
MaxNow == 2          \* the wall clock runs 0..MaxNow
MaxEvents == 2       \* "file" messages handled in one run
MaxTime == 2         \* acquisition times are 0..MaxTime
MaxSeg == 2          \* segments are 0..MaxSeg
MaxVariant == 0      \* values of the variable tag are 0..MaxVariant

\* ---- program constants ----
SLOT_NOT_READY == 0
SLOT_NONCRITICAL_NOT_READY == 1
SLOT_READY == 2
SLOT_READY_BUT_WAIT_FOR_MORE == 3
SLOT_OBSOLETE_TIMEOUT == 4

None == -1           \* Python's None (timeout unset, no status returned)

time_tolerance == 2  \* config "time_tolerance", seconds
timeliness == 1      \* config "timeliness", seconds

Keys == {"k1", "k2"}
Times == 0 .. MaxTime
Segs == 0 .. MaxSeg
Variants == 0 .. MaxVariant
\* msg.data["sensor"]: each pattern is the product of one sensor
SensorOf(key) == IF key = "k1" THEN "s1" ELSE "s2"

\* The item string ':' : one item with the empty segment.
Colon == << <<0>> >>

\* config['patterns'][key]; an unset option is the empty sequence.
\* A mandatory pattern with one critical and two wanted segments.
PatternMandatory ==
  [is_critical_set |-> TRUE, critical_files |-> << <<1>> >>,
   wanted_files |-> << <<1, 2>> >>, all_files |-> << <<1, 2>> >>]

\* A mandatory pattern of one file, with no option set.
PatternSingle ==
  [is_critical_set |-> TRUE, critical_files |-> << >>,
   wanted_files |-> Colon, all_files |-> << >>]

\* An optional pattern of one file, with no option set.
PatternOptional ==
  [is_critical_set |-> FALSE, critical_files |-> << >>,
   wanted_files |-> Colon, all_files |-> << >>]

\* The configurations the gatherer is constructed with.
Configs ==
  { [patterns |-> [k \in {"k1"} |-> PatternMandatory],
     num_files_premature_publish |-> 1],
    [patterns |-> [k \in {"k1"} |-> PatternSingle],
     num_files_premature_publish |-> 1],
    [patterns |-> [k \in Keys |-> IF k = "k1" THEN PatternSingle ELSE PatternOptional],
     num_files_premature_publish |-> 1] }

VARIABLES
  config,      \* self._config, fixed at construction
  slots,       \* self.slots: time_slot -> slot
  order,       \* insertion order of self.slots (OrderedDict)
  todo,        \* run(): the keys of the copy `slots` still to visit in this sweep
  pc,          \* run(): "init", "loop" (inside while), "done", "error"
  loop,        \* self._loop
  listener,    \* self._listener: "running" / "stopped"
  publisher,   \* self._publisher: "created" / "started" / "stopped"
  sent,        \* the messages the last step of run() handed to self._publisher.send
  warned,      \* the files named by the "Missing files" warning of the last step,
               \* as <<key, identity>> pairs; empty when it logged none
  now,         \* dt.datetime.utcnow()
  nEvents,     \* number of "file" messages handled so far
  last,        \* observation: what the last step of run() did
  arrival,     \* observation: the file accepted since its slot was last evaluated
  fired,       \* observation: per slot and pattern, the evaluations that gave
               \* READY_BUT_WAIT_FOR_MORE (counted up to 2)
  published,   \* observation: the acquisition times of the slots sent as READY
  call,        \* the arguments of a direct call of get_collection_status
  ret          \* what the call returned: << >> before it returns, then <<value>>

vars == <<config, slots, order, todo, pc, loop, listener, publisher, sent, warned,
          now, nEvents, last, arrival, fired, published, call, ret>>

\* ---- helpers ----
Abs(x) == IF x < 0 THEN -x ELSE x

Range(s) == {s[i] : i \in 1 .. Len(s)}

\* str(datetime): one distinct string per time
TimeStrings == <<"T0", "T1", "T2", "T3", "T4", "T5", "T6", "T7", "T8", "T9">>
Str(t) == TimeStrings[t + 1]

Patterns == config.patterns
Parsers == DOMAIN config.patterns

\* the orders in which a dict of the given keys can be iterated; self._parsers
\* is a plain dict, the order of which is not the program's to choose
Orders(keys) == {seq \in [1 .. Cardinality(keys) -> keys] : Range(seq) = keys}

\* _compose_filenames (152-184): the identities of an item string for the
\* slot's start time.  An item is <<seg>> or the range <<low, high>>.
ItemSegments(itm) ==
  IF Len(itm) > 1 THEN itm[1] .. itm[Len(itm)] ELSE {itm[1]}

_compose_filenames(start_time, itm_str) ==
  {<<start_time, seg>> : seg \in UNION {ItemSegments(itm_str[i]) : i \in 1 .. Len(itm_str)}}

\* _init_data (104-149): the tracker of one pattern in a new slot.
InitTracker(key, start_time) ==
  LET p == Patterns[key]
      has_critical == p.critical_files # << >>
      default_set == _compose_filenames(start_time, Colon)
      critical == IF has_critical
                  THEN _compose_filenames(start_time, p.critical_files)
                  ELSE IF p.is_critical_set THEN default_set ELSE {}
      wanted == (IF has_critical THEN {} ELSE default_set)
                \cup _compose_filenames(start_time, p.wanted_files)
      all == (IF has_critical THEN {} ELSE default_set)
             \cup (IF p.all_files # << >>
                   THEN _compose_filenames(start_time, p.all_files) ELSE {})
  IN [is_critical_set |-> p.is_critical_set,
      critical_files |-> critical,
      wanted_files |-> wanted,
      all_files |-> all,
      received_files |-> {},
      delayed_files |-> {},
      missing_files |-> {},
      files_till_premature_publish |-> config.num_files_premature_publish]

\* _init_data (91-102): the new slot
_init_data(start_time) ==
  [metadata |-> [start_time |-> start_time, dataset |-> << >>, sensor |-> << >>],
   timeout |-> None,
   src |-> [key \in Parsers |-> InitTracker(key, start_time)]]

\* dict[key] = value on a dict kept as a set of <<key, value>> pairs
DictSet(d, key, value) == {kv \in d : kv[1] # key} \cup {<<key, value>>}

\* mutant of SourceStatus: the count is compared off by one
SourceStatus_offbyone(tr) ==
  LET wanted_and_critical_files == tr.wanted_files \cup tr.critical_files
      num_wanted_and_critical == Cardinality(wanted_and_critical_files \cap tr.received_files)
      default == IF tr.is_critical_set THEN SLOT_NOT_READY ELSE SLOT_NONCRITICAL_NOT_READY
  IN IF wanted_and_critical_files \subseteq tr.received_files
     THEN SLOT_READY
     ELSE IF num_wanted_and_critical = tr.files_till_premature_publish + 1
          THEN SLOT_READY_BUT_WAIT_FOR_MORE
          ELSE default

\* ---- slot_ready (235-275) ----
\* the per-pattern status of lines 246-269
SourceStatus(tr) ==
  LET wanted_and_critical_files == tr.wanted_files \cup tr.critical_files
      num_wanted_and_critical == Cardinality(wanted_and_critical_files \cap tr.received_files)
      default == IF tr.is_critical_set THEN SLOT_NOT_READY ELSE SLOT_NONCRITICAL_NOT_READY
  IN IF wanted_and_critical_files \subseteq tr.received_files
     THEN SLOT_READY
     ELSE IF num_wanted_and_critical = tr.files_till_premature_publish
          THEN SLOT_READY_BUT_WAIT_FOR_MORE
          ELSE default

\* mutant of SourceAfterReady: line 264 is lost
SourceAfterReady_keeps(tr) == tr

\* the tracker after lines 262-264
SourceAfterReady(tr) ==
  LET wanted_and_critical_files == tr.wanted_files \cup tr.critical_files
      num_wanted_and_critical == Cardinality(wanted_and_critical_files \cap tr.received_files)
  IN IF num_wanted_and_critical = tr.files_till_premature_publish
     THEN [tr EXCEPT !.files_till_premature_publish = -1]
     ELSE tr

\* mutant of get_collection_status: every timeout discards the slot
get_collection_status_discard(status, timeout, t) ==
  LET values == {status[k] : k \in DOMAIN status}
  IN IF DOMAIN status = {} THEN SLOT_NOT_READY
     ELSE IF t > timeout THEN SLOT_OBSOLETE_TIMEOUT
          ELSE IF SLOT_NOT_READY \in values THEN SLOT_NOT_READY
          ELSE IF SLOT_NONCRITICAL_NOT_READY \in values THEN SLOT_NONCRITICAL_NOT_READY
          ELSE IF \A v \in values : v = SLOT_READY THEN SLOT_READY
          ELSE IF SLOT_READY_BUT_WAIT_FOR_MORE \in values THEN SLOT_READY_BUT_WAIT_FOR_MORE
          ELSE None

\* mutant of get_collection_status: line 296 asks for some READY, not all
get_collection_status_any(status, timeout, t) ==
  LET values == {status[k] : k \in DOMAIN status}
  IN IF DOMAIN status = {} THEN SLOT_NOT_READY
     ELSE IF t > timeout
          THEN IF SLOT_NONCRITICAL_NOT_READY \in values
               THEN SLOT_READY
               ELSE SLOT_OBSOLETE_TIMEOUT
          ELSE IF SLOT_NOT_READY \in values THEN SLOT_NOT_READY
          ELSE IF SLOT_NONCRITICAL_NOT_READY \in values THEN SLOT_NONCRITICAL_NOT_READY
          ELSE IF \E v \in values : v = SLOT_READY THEN SLOT_READY
          ELSE IF SLOT_READY_BUT_WAIT_FOR_MORE \in values THEN SLOT_READY_BUT_WAIT_FOR_MORE
          ELSE None

\* get_collection_status (277-301); status is a function key -> status
get_collection_status(status, timeout, t) ==
  LET values == {status[k] : k \in DOMAIN status}
  IN IF DOMAIN status = {} THEN SLOT_NOT_READY
     ELSE IF t > timeout
          THEN IF SLOT_NONCRITICAL_NOT_READY \in values
               THEN SLOT_READY
               ELSE SLOT_OBSOLETE_TIMEOUT
          ELSE IF SLOT_NOT_READY \in values THEN SLOT_NOT_READY
          ELSE IF SLOT_NONCRITICAL_NOT_READY \in values THEN SLOT_NONCRITICAL_NOT_READY
          ELSE IF \A v \in values : v = SLOT_READY THEN SLOT_READY
          ELSE IF SLOT_READY_BUT_WAIT_FOR_MORE \in values THEN SLOT_READY_BUT_WAIT_FOR_MORE
          ELSE None

NoStatuses == [k \in Parsers |-> None]

\* slot_ready: the per-pattern statuses it computes (none on the first call)
ReadyStatuses(slot) ==
  IF slot.timeout = None THEN NoStatuses
  ELSE [k \in Parsers |-> SourceStatus(slot.src[k])]

\* mutant of slot_ready: the timeout is never seen to have passed
slot_ready_patient(slot, t) ==
  IF slot.timeout = None THEN SLOT_NOT_READY
  ELSE get_collection_status(ReadyStatuses(slot), slot.timeout, slot.timeout)

\* slot_ready: the value it returns
slot_ready(slot, t) ==
  IF slot.timeout = None THEN SLOT_NOT_READY
  ELSE get_collection_status(ReadyStatuses(slot), slot.timeout, t)

\* mutant of SlotAfterReady: every evaluation sets the timeout anew
SlotAfterReady_advances(slot, t) ==
  [slot EXCEPT !.timeout = t + timeliness,
               !.src = [k \in Parsers |-> SourceAfterReady(slot.src[k])]]

\* mutant of SlotAfterReady: the first evaluation leaves the timeout unset
SlotAfterReady_unset(slot, t) ==
  IF slot.timeout = None
  THEN slot
  ELSE [slot EXCEPT !.src = [k \in Parsers |-> SourceAfterReady(slot.src[k])]]

\* update_timeout (229-233) and the writes of slot_ready to the slot
SlotAfterReady(slot, t) ==
  IF slot.timeout = None
  THEN [slot EXCEPT !.timeout = t + timeliness]
  ELSE [slot EXCEPT !.src = [k \in Parsers |-> SourceAfterReady(slot.src[k])]]

\* ---- _find_time_slot (444-454) ----
\* mutant of CloseEnough: <= for <
CloseEnough_inclusive(time_obj, time_slot) == Abs(time_obj - time_slot) <= time_tolerance

\* mutant of CloseEnough: only a slot of the very same time is close enough
CloseEnough_exact(time_obj, time_slot) == time_obj = time_slot

\* line 450: the slot is close enough
CloseEnough(time_obj, time_slot) == Abs(time_obj - time_slot) < time_tolerance

\* the loop of lines 447-452 over the registry ss in its insertion order ord
RECURSIVE FindFrom(_, _, _, _)
FindFrom(ss, ord, i, time_obj) ==
  IF i > Len(ord) THEN Str(time_obj)
  ELSE LET time_slot == ss[ord[i]].metadata.start_time
       IN IF CloseEnough(time_obj, time_slot)
          THEN Str(time_slot)
          ELSE FindFrom(ss, ord, i + 1, time_obj)

_find_time_slot(ss, ord, time_obj) == FindFrom(ss, ord, 1, time_obj)

\* ---- process (354-433) ----
\* msg.data["uid"], the raw filename; the dataset entry {uri, uid} is kept as the uid
Uid(e) == <<e.key, e.start_time, e.segment, e.variant>>

\* globify of the parsed fields without the variable tags (398-403)
Mask(e) == <<e.start_time, e.segment>>

\* mutant of AlreadyReceived: the check of line 404 is lost
AlreadyReceived_lost(tr, e) == FALSE

\* line 404: the file has been received already
AlreadyReceived(tr, e) == Mask(e) \in tr.received_files

\* mutant of NotExpected: the check of line 406 is lost
NotExpected_lost(tr, e) == FALSE

\* line 406: the file is not one of the files of the slot
NotExpected(tr, e) == Mask(e) \notin tr.all_files

\* lines 416-422: collect the sensors of the message
AddSensor(sensors, sensor) ==
  IF sensor \in Range(sensors) THEN sensors ELSE Append(sensors, sensor)

\* lines 381-385: the registry once the slot of the message exists
SlotsWith(ss, time_slot, start_time) ==
  IF time_slot \in DOMAIN ss THEN ss
  ELSE [k \in DOMAIN ss \cup {time_slot} |->
          IF k = time_slot THEN _init_data(start_time) ELSE ss[k]]

OrderWith(ss, ord, time_slot) ==
  IF time_slot \in DOMAIN ss THEN ord ELSE Append(ord, time_slot)

\* lines 426-427: the critical files of the pattern have all been received
CriticalReceived(tr) ==
  tr.critical_files # {} /\ tr.critical_files \subseteq tr.received_files

\* line 430: the key 'uid', a string where a raw filename belongs; kept as a
\* tuple like the filenames so that the two can be compared
UidLiteral == <<"uid">>

\* lines 424-430: the delayed files of the tracker after an accepted file
DelayedAfter(tr, timeout, t) ==
  IF CriticalReceived(tr)
  THEN LET delay == t - (timeout - timeliness)
       IN IF delay > 0 THEN DictSet(tr.delayed_files, UidLiteral, delay) ELSE tr.delayed_files
  ELSE tr.delayed_files

\* line 428 subtracts from the timeout: a TypeError while it is None
DelayRaises(tr, timeout) == CriticalReceived(tr) /\ timeout = None

\* lines 410-433: the slot after an accepted file
SlotAccept(slot, e, t) ==
  LET tr == slot.src[e.key]
  IN [slot EXCEPT
        !.metadata.dataset = Append(@, Uid(e)),
        !.metadata.sensor = AddSensor(@, SensorOf(e.key)),
        !.src[e.key].delayed_files = DelayedAfter(tr, slot.timeout, t),
        !.src[e.key].received_files = @ \cup {Mask(e)}]

\* process: its outcome, the slot it chose and the registry it leaves
process(e, t) ==
  IF e.key \notin Parsers
  THEN [outcome |-> "unknown", time_slot |-> "", slots |-> slots, order |-> order]
  ELSE LET time_slot == _find_time_slot(slots, order, e.start_time)
           slots1 == SlotsWith(slots, time_slot, e.start_time)
           order1 == OrderWith(slots, order, time_slot)
           slot == slots1[time_slot]
           tr == slot.src[e.key]
       IN IF AlreadyReceived(tr, e)
          THEN [outcome |-> "duplicate", time_slot |-> time_slot,
                slots |-> slots1, order |-> order1]
          ELSE IF NotExpected(tr, e)
          THEN [outcome |-> "unexpected", time_slot |-> time_slot,
                slots |-> slots1, order |-> order1]
          ELSE IF DelayRaises(tr, slot.timeout)
          THEN [outcome |-> "raised", time_slot |-> time_slot,
                slots |-> [slots1 EXCEPT
                             ![time_slot].metadata.dataset = Append(@, Uid(e)),
                             ![time_slot].metadata.sensor = AddSensor(@, SensorOf(e.key))],
                order |-> order1]
          ELSE [outcome |-> "accepted", time_slot |-> time_slot,
                slots |-> [slots1 EXCEPT ![time_slot] = SlotAccept(slot, e, t)],
                order |-> order1]

\* ---- the messages of the listener ----
Events ==
  [key : Keys, start_time : Times, segment : Segs, variant : Variants]
  \cup {[key |-> "none", start_time |-> 0, segment |-> 0, variant |-> 0]}

NoCall == [status |-> << >>, timeout |-> 0, now |-> 0]

NoLast == [op |-> "init", time_slot |-> "", status |-> None, statuses |-> NoStatuses,
           expired |-> FALSE, fresh |-> "", outcome |-> "", start_time |-> None]

NoArrival == [time_slot |-> "", key |-> "", mask |-> <<0, 0>>]

NeverFired == [k \in Parsers |-> 0]

TypeOK ==
  /\ config \in Configs
  /\ pc \in {"init", "loop", "done", "error"}
  /\ loop \in BOOLEAN
  /\ now \in 0 .. MaxNow
  /\ nEvents \in 0 .. MaxEvents
  /\ Range(order) = DOMAIN slots
  /\ Len(order) = Cardinality(DOMAIN slots)
  /\ DOMAIN fired = DOMAIN slots

Init ==
  /\ config \in Configs
  /\ slots = << >>
  /\ order = << >>
  /\ todo = << >>
  /\ pc = "init"
  /\ loop = FALSE
  /\ listener = "running"
  /\ publisher = "created"
  /\ sent = << >>
  /\ warned = {}
  /\ now = 0
  /\ nEvents = 0
  /\ last = NoLast
  /\ arrival = NoArrival
  /\ fired = << >>
  /\ published = {}
  /\ call = NoCall
  /\ ret = << >>

\* the clock advances
Tick ==
  /\ now < MaxNow
  /\ now' = now + 1
  /\ UNCHANGED <<config, published, call, ret, slots, order, todo, pc, loop, listener, publisher, sent,
                 warned, nEvents, last, arrival, fired>>

\* run, lines 306-307
Start ==
  /\ pc = "init"
  /\ publisher' = "started"
  /\ loop' = TRUE
  /\ pc' = "loop"
  /\ todo' = order
  /\ sent' = << >>
  /\ warned' = {}
  /\ last' = [NoLast EXCEPT !.op = "start"]
  /\ UNCHANGED <<config, published, call, ret, slots, order, listener, now, nEvents, arrival, fired>>

\* _clear_data (86-89)
_clear_data(ss, time_slot) == [k \in DOMAIN ss \ {time_slot} |-> ss[k]]

RemoveKey(seq, key) == SelectSeq(seq, LAMBDA k : k # key)

\* _publish (186-221): the message sent
_publish(slot) == slot.metadata

\* _publish, lines 204-207: missing_files after the loop over self._parsers
\* taken in the order parsers, each pass of which assigns it anew
RECURSIVE MissingFrom(_, _, _, _)
MissingFrom(slot, parsers, i, missing_files) ==
  IF i > Len(parsers) THEN missing_files
  ELSE LET key == parsers[i]
       IN MissingFrom(slot, parsers, i + 1,
                      {<<key, f>> : f \in slot.src[key].all_files \ slot.src[key].received_files})

\* _publish, lines 203-210: the files the "Missing files" warning names
MissingWarning(slot, parsers, missing_files_check) ==
  IF missing_files_check THEN MissingFrom(slot, parsers, 1, {}) ELSE {}

\* run, lines 314-320: the statuses that publish the slot
Publishes(status) == status \in {SLOT_READY, SLOT_READY_BUT_WAIT_FOR_MORE}

\* mutant of Removes: READY_BUT_WAIT_FOR_MORE clears the slot too
Removes_waiting(status) ==
  status \in {SLOT_READY, SLOT_READY_BUT_WAIT_FOR_MORE, SLOT_OBSOLETE_TIMEOUT}

\* run, lines 314-317 and 321-323: the statuses that remove the slot
Removes(status) == status \in {SLOT_READY, SLOT_OBSOLETE_TIMEOUT}

\* run, line 308: where run() is after the test of self._loop
WhileLoop == IF loop THEN "loop" ELSE "done"

\* run, lines 311-326: one slot of the sweep
SweepSlot ==
  /\ pc = "loop"
  /\ todo # << >>
  /\ LET time_slot == Head(todo)
         slot == slots[time_slot]
         status == slot_ready(slot, now)
         statuses == ReadyStatuses(slot)
         slot1 == SlotAfterReady(slot, now)
         slots1 == [slots EXCEPT ![time_slot] = slot1]
         fired1 == [fired EXCEPT ![time_slot] =
                      [k \in Parsers |->
                         IF statuses[k] = SLOT_READY_BUT_WAIT_FOR_MORE /\ @[k] < 2
                         THEN @[k] + 1 ELSE @[k]]]
     IN /\ slots' = IF Removes(status) THEN _clear_data(slots1, time_slot) ELSE slots1
        /\ order' = IF Removes(status) THEN RemoveKey(order, time_slot) ELSE order
        /\ fired' = IF Removes(status) THEN _clear_data(fired1, time_slot) ELSE fired1
        /\ sent' = IF Publishes(status) THEN << _publish(slot1) >> ELSE << >>
        /\ \E parsers \in Orders(Parsers) :
             warned' = IF Publishes(status)
                       THEN MissingWarning(slot1, parsers, status = SLOT_READY)
                       ELSE {}
        /\ last' = [op |-> "eval", time_slot |-> time_slot, status |-> status,
                    statuses |-> statuses,
                    expired |-> (slot.timeout # None /\ now > slot.timeout),
                    fresh |-> IF arrival.time_slot = time_slot THEN arrival.key ELSE "",
                    outcome |-> "", start_time |-> None]
        /\ arrival' = IF arrival.time_slot = time_slot THEN NoArrival ELSE arrival
        /\ published' = IF status = SLOT_READY
                         THEN published \cup {slot.metadata.start_time}
                         ELSE published
  /\ todo' = Tail(todo)
  /\ UNCHANGED <<config, call, ret, pc, loop, listener, publisher, now, nEvents>>

\* run, lines 329-342: a "file" message is taken from the queue and processed
RecvFile(e) ==
  /\ pc = "loop"
  /\ todo = << >>
  /\ nEvents < MaxEvents
  /\ LET r == process(e, now)
     IN /\ slots' = r.slots
        /\ order' = r.order
        /\ fired' = [k \in DOMAIN r.slots |-> IF k \in DOMAIN fired THEN fired[k] ELSE NeverFired]
        /\ last' = [NoLast EXCEPT !.op = "file", !.outcome = r.outcome,
                                  !.time_slot = r.time_slot,
                                  !.start_time = IF e.key \in Parsers
                                                 THEN e.start_time ELSE None]
        /\ arrival' = IF r.outcome = "accepted"
                      THEN [time_slot |-> r.time_slot, key |-> e.key, mask |-> Mask(e)]
                      ELSE NoArrival
        /\ pc' = IF r.outcome = "raised" THEN "error" ELSE WhileLoop
        /\ todo' = IF r.outcome = "raised" \/ ~loop THEN << >> ELSE r.order
  /\ nEvents' = nEvents + 1
  /\ sent' = << >>
  /\ warned' = {}
  /\ UNCHANGED <<config, published, call, ret, loop, listener, publisher, now>>

\* run, line 340: a message of another type is ignored
RecvOther ==
  /\ pc = "loop"
  /\ todo = << >>
  /\ last' = [NoLast EXCEPT !.op = "wait"]
  /\ pc' = WhileLoop
  /\ todo' = IF loop THEN order ELSE << >>
  /\ sent' = << >>
  /\ warned' = {}
  /\ UNCHANGED <<config, published, call, ret, slots, order, loop, listener, publisher, now, nEvents,
                 arrival, fired>>

\* run, lines 337-338: no message within a second
QueueEmpty ==
  /\ pc = "loop"
  /\ todo = << >>
  /\ last' = [NoLast EXCEPT !.op = "wait"]
  /\ pc' = WhileLoop
  /\ todo' = IF loop THEN order ELSE << >>
  /\ sent' = << >>
  /\ warned' = {}
  /\ UNCHANGED <<config, published, call, ret, slots, order, loop, listener, publisher, now, nEvents,
                 arrival, fired>>

\* run, lines 334-336, and stop (344-352)
Interrupt ==
  /\ pc = "loop"
  /\ todo = << >>
  /\ loop' = FALSE
  /\ listener' = "stopped"
  /\ publisher' = "stopped"
  /\ pc' = "done"
  /\ sent' = << >>
  /\ warned' = {}
  /\ last' = [NoLast EXCEPT !.op = "interrupt"]
  /\ UNCHANGED <<config, published, call, ret, slots, order, todo, now, nEvents, arrival, fired>>

\* stop (344-352), called by another thread while run() is in its loop
Stop ==
  /\ pc = "loop"
  /\ loop
  /\ loop' = FALSE
  /\ listener' = "stopped"
  /\ publisher' = "stopped"
  /\ UNCHANGED <<config, published, call, ret, slots, order, todo, pc, sent, warned, now, nEvents,
                 last, arrival, fired>>

Next ==
  \/ Tick
  \/ Start
  \/ SweepSlot
  \/ \E e \in Events : RecvFile(e)
  \/ RecvOther
  \/ QueueEmpty
  \/ Interrupt

Spec == Init /\ [][Next]_vars

\* run() with another thread that may call stop()
ThreadedNext ==
  \/ Next
  \/ Stop

ThreadedSpec == Init /\ [][ThreadedNext]_vars

\* ---- get_collection_status called on its own ----
\* the statuses slot_ready gives a pattern (247, 249, 265, 269)
SourceStatuses ==
  {SLOT_NOT_READY, SLOT_NONCRITICAL_NOT_READY, SLOT_READY, SLOT_READY_BUT_WAIT_FOR_MORE}

\* the arguments: a status per pattern for any set of patterns, a timeout
\* and the time the clock shows
Calls ==
  [status : UNION {[K -> SourceStatuses] : K \in SUBSET Keys},
   timeout : 0 .. MaxNow + timeliness,
   now : 0 .. MaxNow]

CallInit ==
  /\ config \in Configs
  /\ slots = << >>
  /\ order = << >>
  /\ todo = << >>
  /\ pc = "init"
  /\ loop = FALSE
  /\ listener = "running"
  /\ publisher = "created"
  /\ sent = << >>
  /\ warned = {}
  /\ now = 0
  /\ nEvents = 0
  /\ last = NoLast
  /\ arrival = NoArrival
  /\ fired = << >>
  /\ published = {}
  /\ call \in Calls
  /\ ret = << >>

CallStatus ==
  /\ ret = << >>
  /\ ret' = << get_collection_status(call.status, call.timeout, call.now) >>
  /\ UNCHANGED <<config, published, call, slots, order, todo, pc, loop, listener, publisher,
                 sent, warned, now, nEvents, last, arrival, fired, published>>

CallSpec == CallInit /\ [][CallStatus]_vars

\* run, lines 329-342: the wait for a message ends within a second, with a
\* message, with Queue.Empty or with an interrupt
Listen ==
  \/ \E e \in Events : RecvFile(e)
  \/ RecvOther
  \/ QueueEmpty
  \/ Interrupt

\* the run loop keeps running: the clock advances, the sweep goes through
\* the slots it copied and the wait for a message returns
LiveSpec ==
  /\ Init
  /\ [][Next]_vars
  /\ WF_vars(Tick)
  /\ WF_vars(SweepSlot)
  /\ WF_vars(Listen)

\* ---- the vocabulary of the properties ----
\* a pattern has received all its wanted and critical files
Complete(tr) == (tr.wanted_files \cup tr.critical_files) \subseteq tr.received_files

\* the matched count of a pattern
Matched(tr) == Cardinality((tr.wanted_files \cup tr.critical_files) \cap tr.received_files)

\* the timeout of the slot has been set and has passed
Expired(slot) == slot.timeout # None /\ now > slot.timeout

\* some mandatory pattern of the slot is incomplete
MandatoryIncomplete(slot) ==
  \E k \in Parsers : slot.src[k].is_critical_set /\ ~Complete(slot.src[k])

\* the slot the sweep evaluates in this step
Evaluated == slots[Head(todo)]

\* C1: an evaluation returns OBSOLETE_TIMEOUT if and only if the timeout has
\* passed and some mandatory pattern lacks a wanted or critical file.
C1_ObsoleteIffMandatoryIncomplete ==
  [][SweepSlot =>
       ((last'.status = SLOT_OBSOLETE_TIMEOUT)
          <=> (Expired(Evaluated) /\ MandatoryIncomplete(Evaluated)))]_vars

\* C2: an evaluation of a slot all of whose patterns are complete returns
\* READY, whatever the timeout is.
C2_CompleteIsReady ==
  [][(SweepSlot /\ \A k \in Parsers : Complete(Evaluated.src[k]))
       => last'.status = SLOT_READY]_vars

\* C3: no message is sent for a slot while a critical file of one of its
\* patterns has not been received.
C3_NoPublishWithoutCritical ==
  [][(SweepSlot /\ sent' # << >>)
       => \A k \in Parsers :
            Evaluated.src[k].critical_files \subseteq Evaluated.src[k].received_files]_vars

\* C4: the evaluation of a slot whose timeout has passed while a mandatory
\* pattern is incomplete removes the slot and sends nothing, and the loop
\* goes on.
C4_TimeoutDiscardsMandatoryIncomplete ==
  [][(SweepSlot /\ Expired(Evaluated) /\ MandatoryIncomplete(Evaluated))
       => /\ Head(todo) \notin DOMAIN slots'
          /\ sent' = << >>
          /\ pc' = "loop"]_vars

\* ---- C5 ----
\* the message renders an identity its pattern has already received in the
\* slot it is routed to
IsDuplicate(e) ==
  /\ e.key \in Parsers
  /\ LET time_slot == _find_time_slot(slots, order, e.start_time)
     IN /\ time_slot \in DOMAIN slots
        /\ Mask(e) \in slots[time_slot].src[e.key].received_files

\* the step is the processing of a file message of the given acquisition time
FileStep(time_obj) ==
  /\ nEvents' = nEvents + 1
  /\ last'.op = "file"
  /\ last'.start_time = time_obj

\* no two entries of the dataset are files of the same pattern and identity
CountedOnce(slot) ==
  LET dataset == slot.metadata.dataset
  IN \A i, j \in 1 .. Len(dataset) :
       (dataset[i][1] = dataset[j][1] /\ dataset[i][2] = dataset[j][2]
          /\ dataset[i][3] = dataset[j][3]) => i = j

\* C5: while a slot is in the registry the received files of its patterns
\* only grow, no identity is counted twice in its dataset, and a message
\* whose identity has been received already changes nothing in the registry.
C5_ReceivedGrowsDuplicateIgnored ==
  [][/\ \A s \in DOMAIN slots \cap DOMAIN slots' : \A k \in Parsers :
          slots[s].src[k].received_files \subseteq slots'[s].src[k].received_files
     /\ \A s \in DOMAIN slots' : CountedOnce(slots'[s])
     /\ \A time_obj \in Times : FileStep(time_obj) =>
          \A e \in [key : Parsers, start_time : {time_obj}, segment : Segs, variant : Variants] :
            (IsDuplicate(e) /\ RecvFile(e)) => (slots' = slots /\ order' = order)]_vars

C5_Witness ==
  /\ last.op = "file"
  /\ last.outcome = "duplicate"
  /\ last.time_slot \in DOMAIN slots
  /\ slots[last.time_slot].metadata.dataset # << >>

\* ---- C6 ----
\* the slot a file of the given time lands in, and the registry after it
RouteOf(ss, ord, time_obj) == _find_time_slot(ss, ord, time_obj)

Near(time_obj) ==
  {i \in 1 .. Len(order) :
     Abs(time_obj - slots[order[i]].metadata.start_time) < time_tolerance}

ReachedNumber ==
  /\ arrival.time_slot = Head(todo)
  /\ LET tr == Evaluated.src[arrival.key]
     IN /\ arrival.mask \in tr.wanted_files \cup tr.critical_files
        /\ Matched(tr) = config.num_files_premature_publish

\* C7 as claimed: the evaluation that follows the arrival that made the
\* count N gives the pattern READY_BUT_WAIT_FOR_MORE.
C7_WaitForMoreWhenCountReached ==
  [][(SweepSlot /\ ReachedNumber)
       => last'.statuses[arrival.key] = SLOT_READY_BUT_WAIT_FOR_MORE]_vars

\* C7 amended: it does so when that evaluation is not the first of the slot
\* (which only sets the timeout) and the pattern is not complete (which is
\* READY); and no pattern is READY_BUT_WAIT_FOR_MORE at another count.
C7_WaitForMoreUnlessFirstOrComplete ==
  [][SweepSlot =>
       /\ (ReachedNumber /\ Evaluated.timeout # None
              /\ ~Complete(Evaluated.src[arrival.key]))
            => last'.statuses[arrival.key] = SLOT_READY_BUT_WAIT_FOR_MORE
       /\ \A k \in Parsers :
            last'.statuses[k] = SLOT_READY_BUT_WAIT_FOR_MORE
              => /\ Matched(Evaluated.src[k]) = config.num_files_premature_publish
                 /\ ~Complete(Evaluated.src[k])]_vars

C7_Witness ==
  /\ last.op = "eval"
  /\ last.fresh \in Parsers
  /\ last.statuses[last.fresh] = SLOT_READY_BUT_WAIT_FOR_MORE

\* ---- C8 ----
\* C8: a pattern of a slot is READY_BUT_WAIT_FOR_MORE in at most one
\* evaluation, and from then on its files_till_premature_publish is -1.
C8_PrematureOneShot ==
  [][/\ \A s \in DOMAIN slots' : \A k \in Parsers :
          /\ fired'[s][k] <= 1
          /\ fired'[s][k] = 1 => slots'[s].src[k].files_till_premature_publish = -1
     /\ \A s \in DOMAIN slots \cap DOMAIN slots' : \A k \in Parsers :
          slots[s].src[k].files_till_premature_publish = -1
            => slots'[s].src[k].files_till_premature_publish = -1]_vars

\* a pattern that has fired is evaluated again at the same count
C8_Witness ==
  /\ last.op = "eval"
  /\ last.time_slot \in DOMAIN slots
  /\ \E k \in Parsers :
       /\ fired[last.time_slot][k] = 1
       /\ last.statuses[k] \in {SLOT_NOT_READY, SLOT_NONCRITICAL_NOT_READY}
       /\ Matched(slots[last.time_slot].src[k]) = config.num_files_premature_publish

\* ---- C9 ----
\* the file sets of a tracker
Files(tr) == <<tr.critical_files, tr.wanted_files, tr.all_files, tr.received_files,
               tr.delayed_files>>

\* this step sends exactly one message, the dataset of the evaluated slot
SendsOne ==
  /\ Len(sent') = 1
  /\ sent'[1].dataset = Evaluated.metadata.dataset
  /\ sent'[1].start_time = Evaluated.metadata.start_time

\* C9: an evaluation to READY sends one message and removes the slot; an
\* evaluation to READY_BUT_WAIT_FOR_MORE sends one message and keeps the slot
\* with its dataset and the files of its trackers.
C9_ReadyRemovesWaitKeeps ==
  [][SweepSlot =>
       /\ last'.status = SLOT_READY
            => /\ SendsOne
               /\ Head(todo) \notin DOMAIN slots'
               /\ Head(todo) \notin Range(order')
       /\ last'.status = SLOT_READY_BUT_WAIT_FOR_MORE
            => /\ SendsOne
               /\ Head(todo) \in DOMAIN slots'
               /\ order' = order
               /\ slots'[Head(todo)].metadata.dataset = Evaluated.metadata.dataset
               /\ slots'[Head(todo)].metadata.sensor = Evaluated.metadata.sensor
               /\ slots'[Head(todo)].timeout = Evaluated.timeout
               /\ \A k \in Parsers :
                    Files(slots'[Head(todo)].src[k]) = Files(Evaluated.src[k])]_vars

\* a slot sent as READY_BUT_WAIT_FOR_MORE is still there and has grown
C9_Witness ==
  \E s \in DOMAIN slots : \E k \in Parsers :
    /\ fired[s][k] = 1
    /\ Matched(slots[s].src[k]) > config.num_files_premature_publish
    /\ Len(slots[s].metadata.dataset) > config.num_files_premature_publish

\* ---- C10 ----
\* the pattern is optional, incomplete and NONCRITICAL_NOT_READY
OptionalNotReady(tr) ==
  /\ ~tr.is_critical_set
  /\ ~Complete(tr)
  /\ Matched(tr) # tr.files_till_premature_publish

\* C10: after the timeout, a slot with an optional pattern that is
\* NONCRITICAL_NOT_READY and all mandatory patterns complete evaluates to
\* READY, is sent and is removed.
C10_TimeoutPublishesWithoutOptional ==
  [][(/\ SweepSlot
      /\ Expired(Evaluated)
      /\ \E k \in Parsers : OptionalNotReady(Evaluated.src[k])
      /\ ~MandatoryIncomplete(Evaluated))
       => /\ last'.status = SLOT_READY
          /\ SendsOne
          /\ Head(todo) \notin DOMAIN slots']_vars

C10_Witness ==
  /\ last.op = "eval"
  /\ last.expired
  /\ last.status = SLOT_READY
  /\ \E k \in Parsers : last.statuses[k] = SLOT_NONCRITICAL_NOT_READY
  /\ \E k \in Parsers : Patterns[k].is_critical_set
  /\ \A k \in Parsers : Patterns[k].is_critical_set => last.statuses[k] = SLOT_READY
  /\ last.time_slot \notin DOMAIN slots
  /\ sent # << >>

\* ---- C11 ----
\* the files of the slot not yet received, of every pattern
MissingOf(slot) ==
  UNION {{<<k, f>> : f \in slot.src[k].all_files \ slot.src[k].received_files} :
           k \in Parsers}

\* C11: every evaluation that publishes a slot some pattern of which lacks
\* one of its files logs a "Missing files" warning naming the missing files
\* of every pattern.
C11_MissingWarningListsEverySource ==
  [][(SweepSlot /\ sent' # << >> /\ MissingOf(Evaluated) # {})
       => warned' = MissingOf(Evaluated)]_vars

\* ---- C12 ----
\* C12: a new slot has no timeout; the evaluation of a slot without timeout
\* sets it to the time of the evaluation plus timeliness and returns
\* NOT_READY; no other step sets a timeout, and a timeout once set is the
\* same for as long as the slot is in the registry.
C12_TimeoutSetOnceAtFirstEvaluation ==
  [][/\ \A s \in DOMAIN slots' \ DOMAIN slots : slots'[s].timeout = None
     /\ \A s \in DOMAIN slots \cap DOMAIN slots' :
          IF slots[s].timeout # None
          THEN slots'[s].timeout = slots[s].timeout
          ELSE IF SweepSlot /\ Head(todo) = s
               THEN slots'[s].timeout = now + timeliness
               ELSE slots'[s].timeout = None
     /\ (SweepSlot /\ Evaluated.timeout = None)
          => (last'.status = SLOT_NOT_READY /\ Head(todo) \in DOMAIN slots')]_vars

\* a slot evaluated again, later than the evaluation that set its timeout,
\* after a file was accepted into it
C12_Witness ==
  /\ last.op = "eval"
  /\ last.time_slot \in DOMAIN slots
  /\ slots[last.time_slot].timeout # None
  /\ slots[last.time_slot].timeout < now + timeliness
  /\ slots[last.time_slot].metadata.dataset # << >>

\* ---- C13 ----
\* the lateness of a file accepted now into the slot: seconds past the
\* nominal boundary timeout - timeliness
Lateness(slot) == now - (slot.timeout - timeliness)

\* the file is accepted into a slot of the registry whose pattern has all
\* its critical files already and whose nominal boundary has passed
ArrivesLate(time_slot, key) ==
  /\ time_slot \in DOMAIN slots
  /\ CriticalReceived(slots[time_slot].src[key])
  /\ slots[time_slot].timeout # None
  /\ Lateness(slots[time_slot]) > 0

\* C13: delayed_files maps the uid of every file accepted late to its
\* lateness, one entry per late file, and an accepted file that is not late
\* adds no entry.
C13_DelayedKeyedByFragment ==
  [][\A e \in Events :
       (FileStep(e.start_time) /\ arrival'.key = e.key /\ arrival'.mask = Mask(e)
          /\ RecvFile(e))
       => LET time_slot == arrival'.time_slot
              before == IF time_slot \in DOMAIN slots
                        THEN slots[time_slot].src[e.key].delayed_files ELSE {}
              after == slots'[time_slot].src[e.key].delayed_files
          IN IF ArrivesLate(time_slot, e.key)
             THEN after = DictSet(before, Uid(e), Lateness(slots[time_slot]))
             ELSE after = before]_vars

\* ---- C14 ----
\* C14: the evaluation of a slot whose timeout has passed removes it, and
\* while the loop runs a slot whose timeout has passed is eventually removed,
\* whether or not another message arrives.
C14_ExpiredSlotRemoved ==
  /\ [][(SweepSlot /\ Expired(Evaluated)) => Head(todo) \notin DOMAIN slots']_vars
  /\ \A t \in Times :
       (Str(t) \in DOMAIN slots /\ Expired(slots[Str(t)]))
         ~> (Str(t) \notin DOMAIN slots \/ pc # "loop")

\* a sweep that followed an empty wait has removed a slot past its timeout
C14_Witness ==
  /\ last.op = "eval"
  /\ last.expired
  /\ last.fresh = ""
  /\ last.time_slot \notin DOMAIN slots
  /\ arrival = NoArrival
  /\ nEvents < MaxEvents

\* ---- C15 ----
\* C15: once stop() has been called, by the interrupt handler of the loop or
\* by another thread, no message is handed to the released publisher, the
\* wait for a message that follows is the last step of run(), run() ends
\* with the listener and the publisher released, and stop() itself sends
\* nothing and leaves the slots in the registry.
C15_StopIsClean ==
  [][/\ (SweepSlot /\ publisher = "stopped") => sent' = << >>
     /\ (Listen /\ ~loop) => pc' # "loop"
     /\ pc' = "done" => (listener' = "stopped" /\ publisher' = "stopped")
     /\ Interrupt => (sent' = << >> /\ slots' = slots)
     /\ Stop => (sent' = sent /\ slots' = slots)]_vars

\* ---- C16 ----
\* the status the priority ladder gives a non-empty map of statuses
Ladder(status) ==
  LET values == {status[k] : k \in DOMAIN status}
  IN IF SLOT_NOT_READY \in values THEN SLOT_NOT_READY
     ELSE IF SLOT_NONCRITICAL_NOT_READY \in values THEN SLOT_NONCRITICAL_NOT_READY
     ELSE IF values = {SLOT_READY} THEN SLOT_READY
     ELSE SLOT_READY_BUT_WAIT_FOR_MORE

\* C16: called with the statuses of at least one pattern and the clock not
\* past the timeout, get_collection_status returns NOT_READY if a pattern is
\* NOT_READY, else NONCRITICAL_NOT_READY if one is that, else READY if all
\* are READY, else READY_BUT_WAIT_FOR_MORE; it always returns a status.
C16_PriorityLadder ==
  (ret # << >> /\ DOMAIN call.status # {} /\ call.now <= call.timeout)
    => /\ ret[1] = Ladder(call.status)
       /\ ret[1] \in {SLOT_NOT_READY, SLOT_NONCRITICAL_NOT_READY, SLOT_READY,
                       SLOT_READY_BUT_WAIT_FOR_MORE, SLOT_OBSOLETE_TIMEOUT}

\* a READY pattern and a READY_BUT_WAIT_FOR_MORE pattern before the timeout
C16_Witness ==
  /\ ret = << SLOT_READY_BUT_WAIT_FOR_MORE >>
  /\ call.now <= call.timeout
  /\ {call.status[k] : k \in DOMAIN call.status} = {SLOT_READY, SLOT_READY_BUT_WAIT_FOR_MORE}

\* ---- C17 ----
\* the message parses and renders an identity that is not among all_files
\* of its pattern in the slot it is routed to
IsUnexpected(e) ==
  /\ e.key \in Parsers
  /\ LET time_slot == _find_time_slot(slots, order, e.start_time)
         all_files == IF time_slot \in DOMAIN slots
                      THEN slots[time_slot].src[e.key].all_files
                      ELSE InitTracker(e.key, e.start_time).all_files
     IN Mask(e) \notin all_files

\* C17: received_files of every pattern of every slot stays within its
\* all_files, and a message whose identity is not in all_files of its
\* pattern leaves every slot that was in the registry as it was.
C17_UnexpectedDiscarded ==
  [][/\ \A s \in DOMAIN slots' : \A k \in Parsers :
          slots'[s].src[k].received_files \subseteq slots'[s].src[k].all_files
     /\ \/ \A s \in DOMAIN slots : s \in DOMAIN slots' /\ slots'[s] = slots[s]
        \/ \A time_obj \in Times : FileStep(time_obj) =>
             \A e \in [key : Parsers, start_time : {time_obj}, segment : Segs, variant : Variants] :
               ~(IsUnexpected(e) /\ RecvFile(e))]_vars

\* an unexpected file was routed to a slot that holds files
C17_Witness ==
  /\ last.op = "file"
  /\ last.outcome = "unexpected"
  /\ last.time_slot \in DOMAIN slots
  /\ slots[last.time_slot].metadata.dataset # << >>

\* ---- C18 ----
\* any two slots of the registry are at least time_tolerance apart and every
\* slot is kept under the string of its own time
SlotsApart ==
  /\ \A s1, s2 \in DOMAIN slots :
       s1 # s2 => Abs(slots[s1].metadata.start_time - slots[s2].metadata.start_time)
                    >= time_tolerance
  /\ \A s \in DOMAIN slots : s = Str(slots[s].metadata.start_time)

\* C18: in every state any two slots of the registry have times at least
\* time_tolerance apart and each slot's key is the string of its time, and
\* no step changes the time of a slot.
C18_NoNearDuplicateSlots ==
  /\ []SlotsApart
  /\ [][\A s \in DOMAIN slots \cap DOMAIN slots' :
          slots'[s].metadata.start_time = slots[s].metadata.start_time]_vars

\* two slots exactly time_tolerance apart, one of which has been evaluated
C18_Witness ==
  \E s1, s2 \in DOMAIN slots :
    /\ slots[s2].metadata.start_time - slots[s1].metadata.start_time = time_tolerance
    /\ slots[s1].timeout # None

\* ---- C19 ----
\* C19: no message is sent for an acquisition time for which a slot has been
\* sent as READY (and removed) before.
C19_NoSecondPublication ==
  [][(SweepSlot /\ sent' # << >>)
       => Evaluated.metadata.start_time \notin published]_vars

\* ---- C20 ----
\* C20: every message sent carries at least one file in its dataset.
C20_PublishedDatasetNonEmpty ==
  [][\A i \in 1 .. Len(sent') : sent'[i].dataset # << >>]_vars

\* ---- C21 ----
\* the step appended a file to the dataset of slot s (line 413) while the
\* critical files of the file's pattern were all received (426-427), so that
\* process went on to the subtraction of line 428
LatenessReached(s) ==
  LET before == IF s \in DOMAIN slots THEN slots[s].metadata.dataset ELSE << >>
      after == slots'[s].metadata.dataset
  IN /\ Len(after) = Len(before) + 1
     /\ LET key == after[Len(after)][1]
            tr == IF s \in DOMAIN slots
                  THEN slots[s].src[key]
                  ELSE InitTracker(key, slots'[s].metadata.start_time)
        IN CriticalReceived(tr)

\* C21: in the run loop, whenever process reaches the computation of the
\* lateness for a slot, the slot was in the registry before the message and
\* its timeout is set; run() never ends with the TypeError of line 428.
C21_LatenessHasTimeout ==
  /\ [](pc # "error" /\ last.outcome # "raised")
  /\ [][\A s \in DOMAIN slots' :
          LatenessReached(s) => (s \in DOMAIN slots /\ slots[s].timeout # None)]_vars

\* a file was accepted into a slot whose pattern had all its critical files
\* before it, and the lateness was computed from the slot's timeout
C21_Witness ==
  /\ last.op = "file"
  /\ last.outcome = "accepted"
  /\ arrival.time_slot \in DOMAIN slots
  /\ LET slot == slots[arrival.time_slot]
         tr == slot.src[arrival.key]
     IN /\ tr.critical_files # {}
        /\ tr.critical_files \subseteq tr.received_files \ {arrival.mask}
        /\ slot.timeout # None


====
